---- MODULE Spec2Model ----
(***************************************************************************)
(* State-machine model of the SmartArt widgets of shens2/smartart:         *)
(*   - ListSmartArt  (src/src/components/ListSmartArt.tsx)                 *)
(*   - CycleSmartArt (src/src/components/CycleSmartArt.tsx)                *)
(* One behaviour is the life of one diagram instance: Init mounts either a *)
(* list diagram or a cycle diagram, and only that component's handlers run.*)
(* Every React state hook of the mounted component is a variable; every    *)
(* event handler, setTimeout callback and promise continuation is an       *)
(* action.  Callbacks deferred with setTimeout(.., 0) wait in `timers`     *)
(* (FIFO), pending generateImageForTitle calls wait in `pending`.          *)
(***************************************************************************)
EXTENDS Integers, Sequences, FiniteSets, TLC

\* ------------------------------------------------------------------ bounds
MaxNodes == 2        \* longest node sequence explored
MaxTotal == 16       \* most nodes a cycle or a list is laid out for

\* --------------------------------------------------------------- constants
NULL == 0            \* JS null of the number | null hooks (ids are >= 1)
MaxId == MaxNodes    \* ids explored: 1..MaxId
MaxPending == MaxNodes    \* most image acquisitions in flight at once

\* list layout, in px: the width of a card, the gap between two cards, the padding
\* of the container on both sides together, and on one side
nodeWidth == 200
nodeGap == 24
padding == 40
containerPadding == 20

DefaultTitle == "Heading 4"
DefaultBody == "Description"
DefaultImage == "photo-1441974231531"
EmptyResultImage == "photo-1557682250"
ErrorFallbackImage == "photo-1579546929518"
GeneratedImages == {"unsplash-result-1"}
BlobImage == "blob:selected-file"
TypedText == {"typed"}
Sources == {"This Device", "Stock Images", "Generate with AI"}

\* Construction input of the list diagram (the first cards of the sample data).
InitialNodes ==
  << [id |-> 1, title |-> "Dogs", body |-> "Dogs are loyal", image |-> "photo-1543466835"],
     [id |-> 2, title |-> "Cats", body |-> "Cats are independent", image |-> "photo-1514888286974"] >>

\* The three cards of the sample data.
SampleNodes ==
  InitialNodes \o
  << [id |-> 3, title |-> "Birds", body |-> "Birds are fascinating", image |-> "photo-1444464666168"] >>

VARIABLES
  diagram,                  \* "list" or "cycle": the component that is mounted
  nodes,                    \* ListSmartArt: useState(initialNodes)
  hoveredNode,
  pressedNode,
  editingTitle,
  editingBody,
  containerActive,
  containerHovered,
  insertPictureMenuOpen,
  generatingImageForNode,
  timers,                   \* setTimeout(.., 0) callbacks not yet run, oldest first
  pending,                  \* generateImageForTitle promises not yet settled
  filePickerFor,            \* node bound to fileInputRef.onchange while the picker is open
  internalNodes,            \* CycleSmartArt: useState(initialNodes)
  propNodes,                \* CycleSmartArt: the nodes prop
  onNodesChange,            \* CycleSmartArt: whether the callback prop is supplied
  notified,                 \* CycleSmartArt: arguments onNodesChange was called with
  lastEvent,                \* history: the handler that ran last
  heldIds,                  \* history: every id a node of the list diagram has held
  drawn                     \* the element the render laid out last, with its inputs

listVars == << nodes, hoveredNode, pressedNode, editingTitle, editingBody,
               containerActive, containerHovered, insertPictureMenuOpen,
               generatingImageForNode, timers, pending, filePickerFor >>
cycleVars == << internalNodes, propNodes, onNodesChange, notified >>
vars == << diagram, listVars, cycleVars, lastEvent, heldIds, drawn >>

\* ----------------------------------------------------------------- helpers
Ids(s) == { s[i].id : i \in DOMAIN s }

MaxOf(S) == CHOOSE m \in S : \A x \in S : x <= m

\* Array.prototype.findIndex: 0-based, -1 when absent
FindIndex(s, nodeId) ==
  IF \E i \in DOMAIN s : s[i].id = nodeId
  THEN (CHOOSE i \in DOMAIN s : s[i].id = nodeId /\ \A j \in 1..(i-1) : s[j].id # nodeId) - 1
  ELSE 0 - 1

\* variant: the new node pushed at the end whatever the position
Splice_append(s, position, x) == Append(s, x)

\* [...s].splice(position, 0, x) with a 0-based position
Splice(s, position, x) ==
  SubSeq(s, 1, position) \o << x >> \o SubSeq(s, position + 1, Len(s))

\* s.filter(node => node.id !== nodeId)
FilterOut(s, nodeId) == SelectSeq(s, LAMBDA n : n.id # nodeId)

\* variant: the map without the id test
MapTitle_all(s, nodeId, v) ==
  [i \in DOMAIN s |-> [s[i] EXCEPT !.title = v]]

\* s.map(node => node.id === nodeId ? { ...node, [field]: value } : node)
MapTitle(s, nodeId, v) ==
  [i \in DOMAIN s |-> IF s[i].id = nodeId THEN [s[i] EXCEPT !.title = v] ELSE s[i]]
MapBody(s, nodeId, v) ==
  [i \in DOMAIN s |-> IF s[i].id = nodeId THEN [s[i] EXCEPT !.body = v] ELSE s[i]]
MapImage(s, nodeId, v) ==
  [i \in DOMAIN s |-> IF s[i].id = nodeId THEN [s[i] EXCEPT !.image = v] ELSE s[i]]

\* variant: the swap written without the destructuring, losing the element at j
SwapAt_overwrite(s, i, j) ==
  [k \in DOMAIN s |-> IF k = j + 1 THEN s[i + 1] ELSE s[k]]

\* [a[i], a[j]] = [a[j], a[i]] with 0-based i, j inside the array
SwapAt(s, i, j) ==
  [k \in DOMAIN s |-> IF k = i + 1 THEN s[j + 1] ELSE IF k = j + 1 THEN s[i + 1] ELSE s[k]]

\* history kept in lastEvent: the handler that ran last and the branch it took, for the
\* handlers whose run the program state alone does not show; NoEvent for the others
Recorded == { "handleClickOutside", "settleAcquisition" }
NoEvent == [op |-> "", node |-> NULL, branch |-> ""]
Event(op, nodeId, branch) ==
  IF op \in Recorded THEN [op |-> op, node |-> nodeId, branch |-> branch] ELSE NoEvent

\* variant: the id taken from the length of the sequence instead of its largest id
newId_byLength(s) == Len(s) + 1

\* a handler invoked with an argument of the caller's choosing is always recorded
Called(op, nodeId, branch) == [op |-> op, node |-> nodeId, branch |-> branch]

\* nothing laid out yet
NotDrawn ==
  [what |-> "", index |-> 0, total |-> 0, angle |-> 0, x |-> 0, y |-> 0,
   textX |-> 0, textY |-> 0, position |-> "", width |-> 0]

\* ------------------------------------------------------------ ListSmartArt
\* const newId = nodes.length > 0 ? Math.max(...nodes.map(n => n.id)) + 1 : 1
newId(s) == IF Len(s) > 0 THEN MaxOf(Ids(s)) + 1 ELSE 1

newNode(id) ==
  [id |-> id, title |-> DefaultTitle, body |-> DefaultBody, image |-> DefaultImage]

\* const mouseHandlersDisabled = insertPictureMenuOpen !== null  (= isAnyMenuOpen)
mouseHandlersDisabled == insertPictureMenuOpen # NULL

\* variant: the container keeps taking pointer events while the menu is open
containerPointerEvents_auto == TRUE

\* SmartArtContainer: pointer-events: none while $menuOpen, inherited by every
\* descendant that does not set pointer-events itself
containerPointerEvents == ~mouseHandlersDisabled

\* variant: the last node can be deleted too
isLastNode_never(s) == FALSE

\* variant: the guard tests for an empty sequence (nodes.length < 1)
isLastNode_empty(s) == Len(s) < 1

\* if (nodes.length <= 1) return;
isLastNode(s) == Len(s) <= 1

\* InsertPictureOverlay $show (pointer-events: auto only when shown)
insertOverlayShown(nodeId) ==
  \/ (hoveredNode = nodeId /\ pressedNode # nodeId)
  \/ insertPictureMenuOpen = nodeId

\* FloatingToolbar $show (display: none otherwise)
toolbarShown(nodeId) == pressedNode = nodeId

\* the "+" buttons are rendered only when containerHovered && pressedNode === null
addButtonsRendered == containerHovered /\ pressedNode = NULL

\* a handler of the list diagram runs only in a mounted list diagram, and leaves the
\* rest alone
ListFrame == diagram = "list" /\ UNCHANGED << diagram, cycleVars, heldIds, drawn >>

\* the same for the one handler that creates an id
InsertFrame == diagram = "list" /\ UNCHANGED << diagram, cycleVars, drawn >>

\* A click, a pointer-down or a keystroke is dispatched to its handler only once the
\* callbacks scheduled with setTimeout(.., 0) by the previous one have run: the next
\* such input is handled later than a zero-delay timer.   Pointer movement, the image
\* provider's answer and the file picker's answer can still come first.
inputDispatched == timers = << >>

\* variant: the reset outside the diagram forgets the hover
handleClickOutside_keepsHover(target) ==
  /\ ListFrame
  /\ inputDispatched
  /\ target = "menu" => insertPictureMenuOpen # NULL
  /\ IF insertPictureMenuOpen # NULL
     THEN /\ insertPictureMenuOpen' =
               IF target \notin {"insertButton", "menu"} THEN NULL ELSE insertPictureMenuOpen
          /\ UNCHANGED << pressedNode, editingTitle, editingBody, containerActive, hoveredNode >>
          /\ lastEvent' = Event("handleClickOutside", NULL,
                                IF target \notin {"insertButton", "menu"} THEN "closeMenu" ELSE "none")
     ELSE /\ IF target = "outside"
             THEN /\ pressedNode' = NULL
                  /\ editingTitle' = NULL
                  /\ editingBody' = NULL
                  /\ containerActive' = FALSE
                  /\ UNCHANGED hoveredNode
             ELSE UNCHANGED << pressedNode, editingTitle, editingBody, containerActive, hoveredNode >>
          /\ UNCHANGED insertPictureMenuOpen
          /\ lastEvent' = Event("handleClickOutside", NULL,
                                IF target = "outside" THEN "reset" ELSE "none")
  /\ UNCHANGED << nodes, containerHovered, generatingImageForNode, timers, pending, filePickerFor >>

\* variant: dismissing the menu does not return early, so the reset runs as well
handleClickOutside_fallsThrough(target) ==
  /\ ListFrame
  /\ inputDispatched
  /\ target = "menu" => insertPictureMenuOpen # NULL
  /\ insertPictureMenuOpen' =
       IF insertPictureMenuOpen # NULL /\ target \notin {"insertButton", "menu"}
       THEN NULL ELSE insertPictureMenuOpen
  /\ IF target = "outside"
     THEN /\ pressedNode' = NULL
          /\ editingTitle' = NULL
          /\ editingBody' = NULL
          /\ containerActive' = FALSE
          /\ hoveredNode' = NULL
     ELSE UNCHANGED << pressedNode, editingTitle, editingBody, containerActive, hoveredNode >>
  /\ lastEvent' = Event("handleClickOutside", NULL,
                        IF insertPictureMenuOpen # NULL
                        THEN (IF target \notin {"insertButton", "menu"} THEN "closeMenu" ELSE "none")
                        ELSE (IF target = "outside" THEN "reset" ELSE "none"))
  /\ UNCHANGED << nodes, containerHovered, generatingImageForNode, timers, pending, filePickerFor >>

\* document mousedown listener.  target: where the pointer went down.
\*   "outside"      outside containerRef (and outside the menu portal)
\*   "container"    inside containerRef, not on an insert button
\*   "insertButton" on an element inside [data-insert-button]
\*   "menu"         inside menuRef (only exists while the menu is rendered)
handleClickOutside(target) ==
  /\ ListFrame
  /\ inputDispatched
  /\ target = "menu" => insertPictureMenuOpen # NULL
  /\ IF insertPictureMenuOpen # NULL
     THEN /\ insertPictureMenuOpen' =
               IF target \notin {"insertButton", "menu"} THEN NULL ELSE insertPictureMenuOpen
          /\ UNCHANGED << pressedNode, editingTitle, editingBody, containerActive, hoveredNode >>
          /\ lastEvent' = Event("handleClickOutside", NULL,
                                IF target \notin {"insertButton", "menu"} THEN "closeMenu" ELSE "none")
     ELSE /\ IF target = "outside"
             THEN /\ pressedNode' = NULL
                  /\ editingTitle' = NULL
                  /\ editingBody' = NULL
                  /\ containerActive' = FALSE
                  /\ hoveredNode' = NULL
             ELSE UNCHANGED << pressedNode, editingTitle, editingBody, containerActive, hoveredNode >>
          /\ UNCHANGED insertPictureMenuOpen
          /\ lastEvent' = Event("handleClickOutside", NULL,
                                IF target = "outside" THEN "reset" ELSE "none")
  /\ UNCHANGED << nodes, containerHovered, generatingImageForNode, timers, pending, filePickerFor >>

\* SmartArtContainer onClick, on empty space (event.target === event.currentTarget)
handleContainerClick ==
  /\ ListFrame
  /\ inputDispatched
  /\ ~mouseHandlersDisabled
  /\ containerPointerEvents
  /\ containerActive' = TRUE
  /\ pressedNode' = NULL
  /\ editingTitle' = NULL
  /\ editingBody' = NULL
  /\ lastEvent' = Event("handleContainerClick", NULL, "")
  /\ UNCHANGED << nodes, hoveredNode, containerHovered, insertPictureMenuOpen,
                  generatingImageForNode, timers, pending, filePickerFor >>

\* SmartArtContainer onMouseEnter / onMouseLeave
containerMouse(entered) ==
  /\ ListFrame
  /\ ~mouseHandlersDisabled
  /\ containerPointerEvents
  /\ containerHovered' = entered
  /\ lastEvent' = Event("containerMouse", NULL, IF entered THEN "enter" ELSE "leave")
  /\ UNCHANGED << nodes, hoveredNode, pressedNode, editingTitle, editingBody, containerActive,
                  insertPictureMenuOpen, generatingImageForNode, timers, pending, filePickerFor >>

\* AddButton onClick={() => handleAddClick(position)}: position 0, 1..length-1, length
handleAddClick(position) ==
  /\ InsertFrame
  /\ heldIds' = heldIds \cup {newId(nodes)}
  /\ inputDispatched
  /\ addButtonsRendered
  /\ containerPointerEvents
  /\ position \in 0..Len(nodes)
  /\ Len(nodes) < MaxNodes
  /\ newId(nodes) <= MaxId
  /\ nodes' = Splice(nodes, position, newNode(newId(nodes)))
  /\ pressedNode' = newId(nodes)
  /\ editingTitle' = newId(nodes)
  /\ editingBody' = NULL
  /\ containerActive' = FALSE
  /\ lastEvent' = Event("handleAddClick", newId(nodes), "")
  /\ UNCHANGED << hoveredNode, containerHovered, insertPictureMenuOpen,
                  generatingImageForNode, timers, pending, filePickerFor >>

\* variant: the offset of the button without the 6 px of fine-tuning
leftPos_untuned(idx) ==
  LET position == idx + 1
  IN  containerPadding + (position * nodeWidth) + ((position - 1) * nodeGap) + (nodeGap \div 2)

\* const leftPos of the between-column button idx (its position is idx + 1)
leftPos(idx) ==
  LET position == idx + 1
  IN  containerPadding + (position * nodeWidth) + ((position - 1) * nodeGap) + (nodeGap \div 2) + 6

\* the between-column "+" buttons of the current render: Array.from({ length:
\* nodes.length - 1 }, (_, idx) => ...) under containerHovered && pressedNode === null
\* && nodes.length > 1
betweenButtons ==
  IF addButtonsRendered /\ Len(nodes) > 1
  THEN { [idx |-> idx, left |-> leftPos(idx), position |-> idx + 1] : idx \in 0..(Len(nodes) - 2) }
  ELSE {}

\* a click on the between-column button idx: onClick={() => handleAddClick(position)};
\* the sequence may grow one node past MaxNodes here
betweenAddClick(idx) ==
  /\ InsertFrame
  /\ heldIds' = heldIds \cup {newId(nodes)}
  /\ inputDispatched
  /\ containerPointerEvents
  /\ \E b \in betweenButtons :
        /\ b.idx = idx
        /\ nodes' = Splice(nodes, b.position, newNode(newId(nodes)))
  /\ Len(nodes) <= MaxNodes
  /\ newId(nodes) <= MaxId + 1
  /\ pressedNode' = newId(nodes)
  /\ editingTitle' = newId(nodes)
  /\ editingBody' = NULL
  /\ containerActive' = FALSE
  /\ lastEvent' = Called("handleAddClick", newId(nodes), "between")
  /\ UNCHANGED << hoveredNode, containerHovered, insertPictureMenuOpen,
                  generatingImageForNode, timers, pending, filePickerFor >>

\* variant: pressing a node leaves the container active
handleNodeClick_keepsContainer(nodeId) ==
  /\ ListFrame
  /\ inputDispatched
  /\ nodeId \in Ids(nodes)
  /\ containerPointerEvents
  /\ pressedNode' = IF pressedNode = nodeId THEN NULL ELSE nodeId
  /\ lastEvent' = Event("handleNodeClick", nodeId, "")
  /\ UNCHANGED << nodes, hoveredNode, editingTitle, editingBody, containerHovered, containerActive,
                  insertPictureMenuOpen, generatingImageForNode, timers, pending, filePickerFor >>

\* NodeContainer onClick (also reached by clicks bubbling from the image and the inputs)
handleNodeClick(nodeId) ==
  /\ ListFrame
  /\ inputDispatched
  /\ nodeId \in Ids(nodes)
  /\ containerPointerEvents
  /\ pressedNode' = IF pressedNode = nodeId THEN NULL ELSE nodeId
  /\ containerActive' = FALSE
  /\ lastEvent' = Event("handleNodeClick", nodeId, "")
  /\ UNCHANGED << nodes, hoveredNode, editingTitle, editingBody, containerHovered,
                  insertPictureMenuOpen, generatingImageForNode, timers, pending, filePickerFor >>

\* Title onClick; the Title element is rendered only while editingTitle !== node.id
handleTitleClick(nodeId) ==
  /\ ListFrame
  /\ inputDispatched
  /\ nodeId \in Ids(nodes)
  /\ containerPointerEvents
  /\ editingTitle # nodeId
  /\ pressedNode' = nodeId
  /\ editingTitle' = nodeId
  /\ editingBody' = NULL
  /\ containerActive' = FALSE
  /\ lastEvent' = Event("handleTitleClick", nodeId, "")
  /\ UNCHANGED << nodes, hoveredNode, containerHovered, insertPictureMenuOpen,
                  generatingImageForNode, timers, pending, filePickerFor >>

\* variant: entering body-edit leaves the title in edit mode
handleBodyClick_keepsTitleEdit(nodeId) ==
  /\ ListFrame
  /\ inputDispatched
  /\ nodeId \in Ids(nodes)
  /\ containerPointerEvents
  /\ editingBody # nodeId
  /\ pressedNode' = nodeId
  /\ editingBody' = nodeId
  /\ containerActive' = FALSE
  /\ lastEvent' = Event("handleBodyClick", nodeId, "")
  /\ UNCHANGED << nodes, hoveredNode, editingTitle, containerHovered, insertPictureMenuOpen,
                  generatingImageForNode, timers, pending, filePickerFor >>

\* Body onClick; the Body element is rendered only while editingBody !== node.id
handleBodyClick(nodeId) ==
  /\ ListFrame
  /\ inputDispatched
  /\ nodeId \in Ids(nodes)
  /\ containerPointerEvents
  /\ editingBody # nodeId
  /\ pressedNode' = nodeId
  /\ editingBody' = nodeId
  /\ editingTitle' = NULL
  /\ containerActive' = FALSE
  /\ lastEvent' = Event("handleBodyClick", nodeId, "")
  /\ UNCHANGED << nodes, hoveredNode, containerHovered, insertPictureMenuOpen,
                  generatingImageForNode, timers, pending, filePickerFor >>

\* what handleTitleChange(nodeId, newTitle) does, for any nodeId
titleChange(nodeId, newTitle) ==
  /\ nodes' = MapTitle(nodes, nodeId, newTitle)
  /\ UNCHANGED << hoveredNode, pressedNode, editingTitle, editingBody, containerActive,
                  containerHovered, insertPictureMenuOpen, generatingImageForNode,
                  timers, pending, filePickerFor >>

\* TitleInput onChange; the input is rendered only while editingTitle === node.id
handleTitleChange(nodeId, newTitle) ==
  /\ ListFrame
  /\ inputDispatched
  /\ nodeId \in Ids(nodes)
  /\ editingTitle = nodeId
  /\ titleChange(nodeId, newTitle)
  /\ lastEvent' = Event("handleTitleChange", nodeId, "")

\* handleTitleChange invoked with any id, in the sequence or not
callTitleChange(nodeId, newTitle) ==
  /\ ListFrame
  /\ inputDispatched
  /\ titleChange(nodeId, newTitle)
  /\ lastEvent' = Called("handleTitleChange", nodeId,
                         IF nodeId \in Ids(nodes) THEN "present" ELSE "absent")

\* what handleBodyChange(nodeId, newBody) does, for any nodeId
bodyChange(nodeId, newBody) ==
  /\ nodes' = MapBody(nodes, nodeId, newBody)
  /\ UNCHANGED << hoveredNode, pressedNode, editingTitle, editingBody, containerActive,
                  containerHovered, insertPictureMenuOpen, generatingImageForNode,
                  timers, pending, filePickerFor >>

\* BodyInput onChange; the textarea is rendered only while editingBody === node.id
handleBodyChange(nodeId, newBody) ==
  /\ ListFrame
  /\ inputDispatched
  /\ nodeId \in Ids(nodes)
  /\ editingBody = nodeId
  /\ bodyChange(nodeId, newBody)
  /\ lastEvent' = Event("handleBodyChange", nodeId, "")

\* handleBodyChange invoked with any id, in the sequence or not
callBodyChange(nodeId, newBody) ==
  /\ ListFrame
  /\ inputDispatched
  /\ bodyChange(nodeId, newBody)
  /\ lastEvent' = Called("handleBodyChange", nodeId,
                         IF nodeId \in Ids(nodes) THEN "present" ELSE "absent")

\* ImageContainer onMouseEnter: attached only while no menu is open
imageMouseEnter(nodeId) ==
  /\ ListFrame
  /\ nodeId \in Ids(nodes)
  /\ ~mouseHandlersDisabled
  /\ containerPointerEvents
  /\ hoveredNode' = nodeId
  /\ lastEvent' = Event("imageMouseEnter", nodeId, "")
  /\ UNCHANGED << nodes, pressedNode, editingTitle, editingBody, containerActive, containerHovered,
                  insertPictureMenuOpen, generatingImageForNode, timers, pending, filePickerFor >>

\* ImageContainer onMouseLeave: attached only while no menu is open
imageMouseLeave(nodeId) ==
  /\ ListFrame
  /\ nodeId \in Ids(nodes)
  /\ ~mouseHandlersDisabled
  /\ containerPointerEvents
  /\ hoveredNode' = NULL
  /\ lastEvent' = Event("imageMouseLeave", nodeId, "")
  /\ UNCHANGED << nodes, pressedNode, editingTitle, editingBody, containerActive, containerHovered,
                  insertPictureMenuOpen, generatingImageForNode, timers, pending, filePickerFor >>

\* A deferred callback: kind "insertPicture" (setTimeout of handleInsertPictureClick,
\* closing over nodeId and isOpening) or "pictureSource" (setTimeout of
\* handlePictureSourceSelect, closing over targetNodeId, source and currentNode.title)
Timer(kind, nodeId, isOpening, source, title) ==
  [kind |-> kind, node |-> nodeId, isOpening |-> isOpening, source |-> source, title |-> title]

TitleOf(s, nodeId) == s[FindIndex(s, nodeId) + 1].title

\* acquisitions already in flight plus those a waiting callback is about to start
acquisitionsCommitted ==
  Len(pending) + Cardinality({ i \in DOMAIN timers : timers[i].source = "Generate with AI" })

\* InsertButton onClick.  (The in-node MenuBackdrop inherits pointer-events: none from
\* the container whenever it is rendered, so the button is the only way in.)
handleInsertPictureClick(nodeId) ==
  /\ ListFrame
  /\ inputDispatched
  /\ nodeId \in Ids(nodes)
  /\ insertOverlayShown(nodeId)
  /\ timers' = Append(timers, Timer("insertPicture", nodeId, insertPictureMenuOpen # nodeId, "", ""))
  /\ lastEvent' = Event("handleInsertPictureClick", nodeId, "")
  /\ UNCHANGED << nodes, hoveredNode, pressedNode, editingTitle, editingBody, containerActive,
                  containerHovered, insertPictureMenuOpen, generatingImageForNode,
                  pending, filePickerFor >>

\* the setTimeout callback of handleInsertPictureClick
insertPictureTimeout ==
  /\ ListFrame
  /\ timers # << >>
  /\ Head(timers).kind = "insertPicture"
  /\ timers' = Tail(timers)
  /\ IF Head(timers).isOpening
     THEN /\ hoveredNode' = Head(timers).node
          /\ pressedNode' = NULL
          /\ editingTitle' = NULL
          /\ editingBody' = NULL
          /\ containerActive' = FALSE
          /\ insertPictureMenuOpen' = Head(timers).node
     ELSE /\ insertPictureMenuOpen' = NULL
          /\ UNCHANGED << hoveredNode, pressedNode, editingTitle, editingBody, containerActive >>
  /\ lastEvent' = Event("insertPictureTimeout", Head(timers).node,
                        IF Head(timers).isOpening THEN "open" ELSE "close")
  /\ UNCHANGED << nodes, containerHovered, generatingImageForNode, pending, filePickerFor >>

\* the portal backdrop behind the menu: onClick closes the menu
menuBackdropClick ==
  /\ ListFrame
  /\ inputDispatched
  /\ insertPictureMenuOpen # NULL
  /\ insertPictureMenuOpen' = NULL
  /\ lastEvent' = Event("menuBackdropClick", NULL, "")
  /\ UNCHANGED << nodes, hoveredNode, pressedNode, editingTitle, editingBody, containerActive,
                  containerHovered, generatingImageForNode, timers, pending, filePickerFor >>

\* InsertPictureMenuItem onClick: handlePictureSourceSelect(insertPictureMenuOpen, source, e)
handlePictureSourceSelect(source) ==
  /\ ListFrame
  /\ inputDispatched
  /\ insertPictureMenuOpen # NULL
  /\ IF insertPictureMenuOpen \notin Ids(nodes)
     THEN /\ UNCHANGED timers                       \* if (!currentNode) return;
          /\ lastEvent' = Event("handlePictureSourceSelect", insertPictureMenuOpen, "noNode")
     ELSE /\ source = "Generate with AI" => acquisitionsCommitted < MaxPending
          /\ timers' = Append(timers, Timer("pictureSource", insertPictureMenuOpen, FALSE, source,
                                            TitleOf(nodes, insertPictureMenuOpen)))
          /\ lastEvent' = Event("handlePictureSourceSelect", insertPictureMenuOpen, source)
  /\ UNCHANGED << nodes, hoveredNode, pressedNode, editingTitle, editingBody, containerActive,
                  containerHovered, insertPictureMenuOpen, generatingImageForNode,
                  pending, filePickerFor >>

\* an acquisition in flight: the await of generateImageForTitle(title) inside the
\* callback.  `orphaned` is history: the target was deleted while this was pending.
Acquisition(target, title) == [target |-> target, title |-> title, orphaned |-> FALSE]

\* variant: 'Stock Images' puts the default picture on the node
pictureSourceTimeout_stockSetsImage ==
  /\ ListFrame
  /\ timers # << >>
  /\ Head(timers).kind = "pictureSource"
  /\ timers' = Tail(timers)
  /\ insertPictureMenuOpen' = NULL
  /\ hoveredNode' = NULL
  /\ IF Head(timers).source = "This Device"
     THEN /\ filePickerFor' = Head(timers).node
          /\ UNCHANGED << generatingImageForNode, pending, nodes >>
     ELSE IF Head(timers).source = "Generate with AI"
     THEN /\ generatingImageForNode' = Head(timers).node
          /\ pending' = Append(pending, Acquisition(Head(timers).node, Head(timers).title))
          /\ UNCHANGED << filePickerFor, nodes >>
     ELSE /\ nodes' = MapImage(nodes, Head(timers).node, DefaultImage)
          /\ UNCHANGED << generatingImageForNode, pending, filePickerFor >>
  /\ lastEvent' = Event("pictureSourceTimeout", Head(timers).node, Head(timers).source)
  /\ UNCHANGED << pressedNode, editingTitle, editingBody, containerActive, containerHovered >>

\* the setTimeout callback of handlePictureSourceSelect, up to its first await
pictureSourceTimeout ==
  /\ ListFrame
  /\ timers # << >>
  /\ Head(timers).kind = "pictureSource"
  /\ timers' = Tail(timers)
  /\ insertPictureMenuOpen' = NULL
  /\ hoveredNode' = NULL
  /\ IF Head(timers).source = "This Device"
     THEN /\ filePickerFor' = Head(timers).node
          /\ UNCHANGED << generatingImageForNode, pending >>
     ELSE IF Head(timers).source = "Generate with AI"
     THEN /\ generatingImageForNode' = Head(timers).node
          /\ pending' = Append(pending, Acquisition(Head(timers).node, Head(timers).title))
          /\ UNCHANGED filePickerFor
     ELSE UNCHANGED << generatingImageForNode, pending, filePickerFor >>   \* 'Stock Images': alert
  /\ lastEvent' = Event("pictureSourceTimeout", Head(timers).node, Head(timers).source)
  /\ UNCHANGED << nodes, pressedNode, editingTitle, editingBody, containerActive, containerHovered >>

RemoveAt(s, i) == SubSeq(s, 1, i - 1) \o SubSeq(s, i + 1, Len(s))

\* what the image provider answers: a first result, an empty result set, or a failure
Outcomes ==
  { [kind |-> "result", url |-> u] : u \in GeneratedImages }
    \cup { [kind |-> "empty", url |-> ""], [kind |-> "error", url |-> ""] }

\* generateImageForTitle: the value it resolves with (it rethrows on "error")
generateImageForTitle(outcome) ==
  IF outcome.kind = "result" THEN outcome.url ELSE EmptyResultImage

\* variant: the continuation reads the shared loading state instead of the id it
\* captured
settleTarget_shared(acq) == generatingImageForNode

\* which node the continuation writes to
settleTarget(acq) == acq.target

\* variant: the loading state is cleared at the end of the try block only
settleAcquisition_noFinally(i, outcome) ==
  /\ ListFrame
  /\ i \in DOMAIN pending
  /\ pending' = RemoveAt(pending, i)
  /\ nodes' = IF outcome.kind = "error"
              THEN MapImage(nodes, settleTarget(pending[i]), ErrorFallbackImage)
              ELSE MapImage(nodes, settleTarget(pending[i]), generateImageForTitle(outcome))
  /\ generatingImageForNode' = IF outcome.kind = "error" THEN generatingImageForNode ELSE NULL
  /\ lastEvent' = Event("settleAcquisition", pending[i].target, outcome.kind)
  /\ UNCHANGED << hoveredNode, pressedNode, editingTitle, editingBody, containerActive,
                  containerHovered, insertPictureMenuOpen, timers, filePickerFor >>

\* the continuation of the callback after the await: try / catch / finally
settleAcquisition(i, outcome) ==
  /\ ListFrame
  /\ i \in DOMAIN pending
  /\ pending' = RemoveAt(pending, i)
  /\ nodes' = IF outcome.kind = "error"
              THEN MapImage(nodes, settleTarget(pending[i]), ErrorFallbackImage)
              ELSE MapImage(nodes, settleTarget(pending[i]), generateImageForTitle(outcome))
  /\ generatingImageForNode' = NULL
  /\ lastEvent' = Event("settleAcquisition", pending[i].target, outcome.kind)
  /\ UNCHANGED << hoveredNode, pressedNode, editingTitle, editingBody, containerActive,
                  containerHovered, insertPictureMenuOpen, timers, filePickerFor >>

\* whether the user is told: alert() in the catch block; an empty result set is only
\* logged to the console
noticeRaised(outcome) == outcome.kind = "error"

\* NodeImage onError: the handler swaps the <img> src for the fallback (it touches
\* the DOM element only, no hook) unless this node is the one marked generating
onErrorSubstitutes(nodeId) == generatingImageForNode # nodeId

\* MIME types a picked file may carry, as <<type, subtype>>
FileTypes == { << "image", "png" >>, << "text", "plain" >> }

\* variant: the picked file is taken whatever its type
isImageFile_any(type) == TRUE

\* file.type.startsWith('image/')
isImageFile(type) == type[1] = "image"

\* what handleFileSelection(nodeId) does with a picked file of the given type;
\* rendered: the ids of the render whose nodes it closes over (nodes.find)
fileSelection(rendered, nodeId, type) ==
  /\ nodes' = IF nodeId \in rendered /\ isImageFile(type)
              THEN MapImage(nodes, nodeId, BlobImage)
              ELSE nodes
  /\ UNCHANGED << hoveredNode, pressedNode, editingTitle, editingBody, containerActive,
                  containerHovered, insertPictureMenuOpen, generatingImageForNode, timers, pending >>

\* fileInputRef.onchange = () => handleFileSelection(targetNodeId), run when the picker
\* returns a file.  It closes over the nodes of the render that opened the picker, in
\* which the target exists.  (The JSX onChange fallback runs after it and changes no
\* state: the input was reset, or the same non-image file is rejected again.)
handleFileSelection(type) ==
  /\ ListFrame
  /\ filePickerFor # NULL
  /\ filePickerFor' = NULL
  /\ fileSelection(Ids(nodes) \cup {filePickerFor}, filePickerFor, type)
  /\ lastEvent' = Event("handleFileSelection", filePickerFor,
                        IF isImageFile(type) THEN "image" ELSE "rejected")

\* the same run of handleFileSelection, always recorded with what it did to the file
fileChosen(type) ==
  /\ ListFrame
  /\ filePickerFor # NULL
  /\ filePickerFor' = NULL
  /\ fileSelection(Ids(nodes) \cup {filePickerFor}, filePickerFor, type)
  /\ lastEvent' = Called("handleFileSelection", filePickerFor,
                         IF isImageFile(type) THEN "image" ELSE "rejected")

\* handleFileSelection invoked with any id and a file of the given type, from the
\* current render
callFileSelection(nodeId, type) ==
  /\ ListFrame
  /\ inputDispatched
  /\ UNCHANGED filePickerFor
  /\ fileSelection(Ids(nodes), nodeId, type)
  /\ lastEvent' = Called("handleFileSelection", nodeId,
                         IF nodeId \in Ids(nodes) THEN "present" ELSE "absent")

\* the picker is dismissed without a file: no change event
filePickerCancel ==
  /\ ListFrame
  /\ filePickerFor # NULL
  /\ filePickerFor' = NULL
  /\ lastEvent' = Event("filePickerCancel", filePickerFor, "")
  /\ UNCHANGED << nodes, hoveredNode, pressedNode, editingTitle, editingBody, containerActive,
                  containerHovered, insertPictureMenuOpen, generatingImageForNode, timers, pending >>

\* ToolbarButton "Move Left"
handleMoveLeft(nodeId) ==
  /\ ListFrame
  /\ inputDispatched
  /\ nodeId \in Ids(nodes)
  /\ toolbarShown(nodeId)
  /\ containerPointerEvents
  /\ IF FindIndex(nodes, nodeId) > 0
     THEN /\ nodes' = SwapAt(nodes, FindIndex(nodes, nodeId), FindIndex(nodes, nodeId) - 1)
          /\ pressedNode' = nodeId
          /\ containerActive' = FALSE
          /\ editingTitle' = NULL
          /\ editingBody' = NULL
          /\ lastEvent' = Event("handleMoveLeft", nodeId, "swap")
     ELSE /\ UNCHANGED << nodes, pressedNode, containerActive, editingTitle, editingBody >>
          /\ lastEvent' = Event("handleMoveLeft", nodeId, "none")
  /\ UNCHANGED << hoveredNode, containerHovered, insertPictureMenuOpen, generatingImageForNode,
                  timers, pending, filePickerFor >>

\* ToolbarButton "Move Right"
handleMoveRight(nodeId) ==
  /\ ListFrame
  /\ inputDispatched
  /\ nodeId \in Ids(nodes)
  /\ toolbarShown(nodeId)
  /\ containerPointerEvents
  /\ IF FindIndex(nodes, nodeId) < Len(nodes) - 1
     THEN /\ nodes' = SwapAt(nodes, FindIndex(nodes, nodeId), FindIndex(nodes, nodeId) + 1)
          /\ pressedNode' = nodeId
          /\ containerActive' = FALSE
          /\ editingTitle' = NULL
          /\ editingBody' = NULL
          /\ lastEvent' = Event("handleMoveRight", nodeId, "swap")
     ELSE /\ UNCHANGED << nodes, pressedNode, containerActive, editingTitle, editingBody >>
          /\ lastEvent' = Event("handleMoveRight", nodeId, "none")
  /\ UNCHANGED << hoveredNode, containerHovered, insertPictureMenuOpen, generatingImageForNode,
                  timers, pending, filePickerFor >>

\* history only: acquisitions whose target leaves the sequence become orphaned
orphan(s, nodeId) ==
  [i \in DOMAIN s |-> IF s[i].target = nodeId THEN [s[i] EXCEPT !.orphaned = TRUE] ELSE s[i]]

\* what handleDeleteNode(nodeId) does, for any nodeId
deleteNode(nodeId) ==
  /\ IF isLastNode(nodes)
     THEN UNCHANGED << nodes, pressedNode, editingTitle, editingBody, pending >>
     ELSE /\ nodes' = FilterOut(nodes, nodeId)
          /\ pressedNode' = NULL
          /\ editingTitle' = NULL
          /\ editingBody' = NULL
          /\ pending' = orphan(pending, nodeId)
  /\ UNCHANGED << hoveredNode, containerActive, containerHovered, insertPictureMenuOpen,
                  generatingImageForNode, timers, filePickerFor >>

\* ToolbarButton "Delete"
handleDeleteNode(nodeId) ==
  /\ ListFrame
  /\ inputDispatched
  /\ nodeId \in Ids(nodes)
  /\ toolbarShown(nodeId)
  /\ containerPointerEvents
  /\ deleteNode(nodeId)
  /\ lastEvent' = Event("handleDeleteNode", nodeId,
                        IF isLastNode(nodes) THEN "rejected" ELSE "deleted")

\* handleDeleteNode invoked with any id, in the sequence or not
callDeleteNode(nodeId) ==
  /\ ListFrame
  /\ inputDispatched
  /\ deleteNode(nodeId)
  /\ lastEvent' = Called("handleDeleteNode", nodeId,
                         IF nodeId \in Ids(nodes) THEN "present" ELSE "absent")

\* ------------------------------------------------- the gestures, by group
\* pointer gestures that only touch the interaction state
PointerEvents ==
  \/ \E target \in {"outside", "container", "insertButton", "menu"} : handleClickOutside(target)
  \/ handleContainerClick
  \/ \E entered \in BOOLEAN : containerMouse(entered)
  \/ \E nodeId \in 1..MaxId : handleNodeClick(nodeId)
  \/ \E nodeId \in 1..MaxId : handleTitleClick(nodeId)
  \/ \E nodeId \in 1..MaxId : handleBodyClick(nodeId)
  \/ \E nodeId \in 1..MaxId : imageMouseEnter(nodeId)
  \/ \E nodeId \in 1..MaxId : imageMouseLeave(nodeId)

\* insert, move and delete
StructureEvents ==
  \/ \E position \in 0..MaxNodes : handleAddClick(position)
  \/ \E nodeId \in 1..MaxId : handleMoveLeft(nodeId)
  \/ \E nodeId \in 1..MaxId : handleMoveRight(nodeId)
  \/ \E nodeId \in 1..MaxId : handleDeleteNode(nodeId)

\* typing into the title input and the body textarea
TextEvents ==
  \/ \E nodeId \in 1..MaxId, newTitle \in TypedText : handleTitleChange(nodeId, newTitle)
  \/ \E nodeId \in 1..MaxId, newBody \in TypedText : handleBodyChange(nodeId, newBody)

\* the image-source menu, offering the sources in S
MenuEvents(S) ==
  \/ \E nodeId \in 1..MaxId : handleInsertPictureClick(nodeId)
  \/ insertPictureTimeout
  \/ menuBackdropClick
  \/ \E source \in S : handlePictureSourceSelect(source)
  \/ pictureSourceTimeout

\* the image provider answers
AcquisitionEvents ==
  \E i \in 1..MaxPending, outcome \in Outcomes : settleAcquisition(i, outcome)

\* the file picker returns
FileEvents ==
  \/ \E type \in FileTypes : handleFileSelection(type)
  \/ filePickerCancel

\* ----------------------------------------------------------- CycleSmartArt
CycleNode(id) == [id |-> id, title |-> "Step", description |-> "Details"]

\* construction inputs: every sequence of at most two nodes with distinct ids in 1..3
CycleInputs ==
  { << >> } \cup { << CycleNode(a) >> : a \in 1..3 }
    \cup { << CycleNode(x[1]), CycleNode(x[2]) >> : x \in { y \in (1..3) \X (1..3) : y[1] # y[2] } }

\* const nodes = onNodesChange ? initialNodes : internalNodes
cycleNodes == IF onNodesChange THEN propNodes ELSE internalNodes

\* const maxId = Math.max(...nodes.map(node => node.id), 0); const newId = maxId + 1
cycleNewId(s) == MaxOf(Ids(s) \cup {0}) + 1

cycleNewNode(id) == [id |-> id, title |-> "New Step", description |-> "Add details here"]

CycleFrame == diagram = "cycle" /\ UNCHANGED << diagram, listVars, heldIds, drawn >>

\* variant: the internal copy is updated whether or not the callback is supplied
handleAddNode_bothCopies(indexToInsertAfter) ==
  /\ CycleFrame
  /\ indexToInsertAfter \in 0..(Len(cycleNodes) - 1)
  /\ Len(cycleNodes) < MaxNodes + 1
  /\ LET updatedNodes == Splice(cycleNodes, indexToInsertAfter + 1, cycleNewNode(cycleNewId(cycleNodes)))
     IN /\ internalNodes' = updatedNodes
        /\ notified' = IF onNodesChange THEN << updatedNodes >> ELSE << >>
  /\ lastEvent' = Event("handleAddNode", cycleNewId(cycleNodes), "")
  /\ UNCHANGED << propNodes, onNodesChange >>

\* AddButton onClick={() => handleAddNode(index)}, one button per node
handleAddNode(indexToInsertAfter) ==
  /\ CycleFrame
  /\ indexToInsertAfter \in 0..(Len(cycleNodes) - 1)
  /\ Len(cycleNodes) < MaxNodes + 1
  /\ LET updatedNodes == Splice(cycleNodes, indexToInsertAfter + 1, cycleNewNode(cycleNewId(cycleNodes)))
     IN IF onNodesChange
        THEN /\ notified' = << updatedNodes >>
             /\ UNCHANGED internalNodes
        ELSE /\ internalNodes' = updatedNodes
             /\ notified' = << >>
  /\ lastEvent' = Event("handleAddNode", cycleNewId(cycleNodes), "")
  /\ UNCHANGED << propNodes, onNodesChange >>

\* the embedding application re-renders the widget with the sequence it was notified of
parentRerender ==
  /\ CycleFrame
  /\ onNodesChange
  /\ notified # << >>
  /\ propNodes' = notified[1]
  /\ notified' = << >>
  /\ lastEvent' = Event("parentRerender", NULL, "")
  /\ UNCHANGED << internalNodes, onNodesChange >>

CycleEvents ==
  \/ \E indexToInsertAfter \in 0..MaxNodes : handleAddNode(indexToInsertAfter)
  \/ parentRerender

\* ------------------------------------------------------------------ layout
\* Angles are whole numbers of a unit that divides 360 / total for every total laid
\* out, 22.5 degrees, and the halves the midpoints need: what the code computes in
\* degrees is computed here without rounding.
RECURSIVE Gcd(_, _)
Gcd(a, b) == IF b = 0 THEN a ELSE Gcd(b, a % b)

RECURSIVE LcmUpTo(_)
LcmUpTo(n) == IF n <= 1 THEN 1 ELSE (LcmUpTo(n - 1) * n) \div Gcd(LcmUpTo(n - 1), n)

\* 360 degrees
Turn == 16 * LcmUpTo(MaxTotal)

\* d degrees, and h half degrees (22.5 is HalfDegrees(45))
Degrees(d) == d * (Turn \div 360)
HalfDegrees(h) == h * (Turn \div 720)

\* 360 / total
Step(total) == Turn \div total

Abs(a) == IF a < 0 THEN 0 - a ELSE a

\* the % of JavaScript: the result has the sign of the dividend
JsMod(a, m) == IF a >= 0 THEN a % m ELSE 0 - ((0 - a) % m)

\* Coordinates, Math.cos and Math.sin are fixed-point numbers with four decimals.
FP == 10000
HalfPi == 15708

\* sine and cosine of r in [0, pi/2] (fixed point), by their series up to r^9 and r^8
SinSeries(r) ==
  LET r2 == (r * r) \div FP
      t3 == (r * r2) \div (6 * FP)
      t5 == (t3 * r2) \div (20 * FP)
      t7 == (t5 * r2) \div (42 * FP)
      t9 == (t7 * r2) \div (72 * FP)
  IN  r - t3 + t5 - t7 + t9

CosSeries(r) ==
  LET r2 == (r * r) \div FP
      c2 == r2 \div 2
      c4 == (c2 * r2) \div (12 * FP)
      c6 == (c4 * r2) \div (30 * FP)
      c8 == (c6 * r2) \div (56 * FP)
  IN  FP - c2 + c4 - c6 + c8

\* (angle * Math.PI) / 180 for an angle within the first quarter turn
Radians(a) ==
  LET quarter == Turn \div 4
      g == Gcd(quarter, a)
  IN  (HalfPi * (a \div g)) \div (quarter \div g)

\* Math.cos and Math.sin of an angle of any sign and size
MathCos(a) ==
  LET quarter == Turn \div 4
      n == a % Turn
      r == Radians(n % quarter)
  IN  CASE n \div quarter = 0 -> CosSeries(r)
        [] n \div quarter = 1 -> 0 - SinSeries(r)
        [] n \div quarter = 2 -> 0 - CosSeries(r)
        [] OTHER              -> SinSeries(r)

MathSin(a) ==
  LET quarter == Turn \div 4
      n == a % Turn
      r == Radians(n % quarter)
  IN  CASE n \div quarter = 0 -> SinSeries(r)
        [] n \div quarter = 1 -> CosSeries(r)
        [] n \div quarter = 2 -> 0 - SinSeries(r)
        [] OTHER              -> 0 - CosSeries(r)

centerX == 400
centerY == 400
defaultRadius == 250

\* const angleInDegrees = 90 - (index * (360 / total))
angleInDegrees(index, total) == Degrees(90) - index * Step(total)

\* const normalizedAngle = ((angleInDegrees % 360) + 360) % 360
normalizedAngle(a) == JsMod(JsMod(a, Turn) + Turn, Turn)

\* variant: the first test takes its upper limit in (n <= 22.5)
positionOf_closedAbove(n) ==
  IF n >= HalfDegrees(675) \/ n <= HalfDegrees(45) THEN "right"
  ELSE IF n >= HalfDegrees(45) /\ n < HalfDegrees(135) THEN "bottom-right"
  ELSE IF n >= HalfDegrees(135) /\ n < HalfDegrees(225) THEN "bottom"
  ELSE IF n >= HalfDegrees(225) /\ n < HalfDegrees(315) THEN "bottom-left"
  ELSE IF n >= HalfDegrees(315) /\ n < HalfDegrees(405) THEN "left"
  ELSE IF n >= HalfDegrees(405) /\ n < HalfDegrees(495) THEN "top-left"
  ELSE IF n >= HalfDegrees(495) /\ n < HalfDegrees(585) THEN "top"
  ELSE "top-right"

\* the if / else-if chain that names the side the label goes to
positionOf(n) ==
  IF n >= HalfDegrees(675) \/ n < HalfDegrees(45) THEN "right"
  ELSE IF n >= HalfDegrees(45) /\ n < HalfDegrees(135) THEN "bottom-right"
  ELSE IF n >= HalfDegrees(135) /\ n < HalfDegrees(225) THEN "bottom"
  ELSE IF n >= HalfDegrees(225) /\ n < HalfDegrees(315) THEN "bottom-left"
  ELSE IF n >= HalfDegrees(315) /\ n < HalfDegrees(405) THEN "left"
  ELSE IF n >= HalfDegrees(405) /\ n < HalfDegrees(495) THEN "top-left"
  ELSE IF n >= HalfDegrees(495) /\ n < HalfDegrees(585) THEN "top"
  ELSE "top-right"

\* variant: y takes the offset of the label (30) where it should take the radius
calculateNodePosition_labelOffset(index, total, radius) ==
  LET a == angleInDegrees(index, total)
      x == centerX * FP + radius * MathCos(a)
      y == centerY * FP - 30 * MathSin(a)
  IN  [x |-> x, y |-> y,
       textX |-> x + 30 * MathCos(a),
       textY |-> y + (0 - 30) * MathSin(a),
       position |-> positionOf(normalizedAngle(a))]

\* calculateNodePosition(index, total, radius): { x, y, textX, textY, position }
calculateNodePosition(index, total, radius) ==
  LET a == angleInDegrees(index, total)
      x == centerX * FP + radius * MathCos(a)
      y == centerY * FP - radius * MathSin(a)
  IN  [x |-> x, y |-> y,
       textX |-> x + 30 * MathCos(a),
       textY |-> y + (0 - 30) * MathSin(a),
       position |-> positionOf(normalizedAngle(a))]

\* variant: without the last block, which sets the angle between the last node and
\* the first over again
midAngle_generalOnly(indexBefore, total) ==
  LET angleBefore == Degrees(90) - indexBefore * Step(total)
      angleAfter == Degrees(90) - ((indexBefore + 1) % total) * Step(total)
      adjustedAngleBefore == IF angleBefore < 0 THEN angleBefore + Turn ELSE angleBefore
      adjustedAngleAfter == IF angleAfter < 0 THEN angleAfter + Turn ELSE angleAfter
      wrapped == (adjustedAngleBefore + adjustedAngleAfter + Turn) \div 2
  IN  IF Abs(angleBefore - angleAfter) > Degrees(180)
      THEN (IF wrapped >= Turn THEN wrapped - Turn ELSE wrapped)
      ELSE (angleBefore + angleAfter) \div 2

\* the local midAngle of calculateAddButtonPosition, for total > 1
midAngle(indexBefore, total) ==
  LET angleBefore == Degrees(90) - indexBefore * Step(total)
      angleAfter == Degrees(90) - ((indexBefore + 1) % total) * Step(total)
      adjustedAngleBefore == IF angleBefore < 0 THEN angleBefore + Turn ELSE angleBefore
      adjustedAngleAfter == IF angleAfter < 0 THEN angleAfter + Turn ELSE angleAfter
      wrapped == (adjustedAngleBefore + adjustedAngleAfter + Turn) \div 2
      general == IF Abs(angleBefore - angleAfter) > Degrees(180)
                 THEN (IF wrapped >= Turn THEN wrapped - Turn ELSE wrapped)
                 ELSE (angleBefore + angleAfter) \div 2
      lastToFirst == (angleBefore + Turn + angleAfter) \div 2
  IN  IF indexBefore = total - 1
      THEN (IF lastToFirst >= Turn THEN lastToFirst - Turn ELSE lastToFirst)
      ELSE general

\* calculateAddButtonPosition(indexBefore, total, radius): { x, y }
calculateAddButtonPosition(indexBefore, total, radius) ==
  IF total <= 1
  THEN [x |-> 0, y |-> 0]
  ELSE [x |-> centerX * FP + radius * MathCos(midAngle(indexBefore, total)),
        y |-> centerY * FP - radius * MathSin(midAngle(indexBefore, total))]

\* variant: the padding of one side only
containerWidth_onePadding(nodeCount) ==
  LET count == IF nodeCount = 0 THEN 1 ELSE nodeCount
  IN  (count * nodeWidth) + ((count - 1) * nodeGap) + (padding \div 2)

\* SmartArtContainer width, from $nodeCount
containerWidth(nodeCount) ==
  LET count == IF nodeCount = 0 THEN 1 ELSE nodeCount      \* props.$nodeCount || 1
  IN  (count * nodeWidth) + ((count - 1) * nodeGap) + padding

\* a step of the render lays one element out and leaves the state of the diagram alone
LayoutFrame == UNCHANGED << diagram, listVars, cycleVars, lastEvent, heldIds >>

\* nodes.map((node, index) => calculateNodePosition(index, nodes.length))
drawNode(index, total) ==
  /\ LayoutFrame
  /\ diagram = "cycle"
  /\ total >= 1
  /\ index \in 0..(total - 1)
  /\ LET at == calculateNodePosition(index, total, defaultRadius)
     IN  drawn' = [what |-> "NodeMarker", index |-> index, total |-> total,
                   angle |-> angleInDegrees(index, total), x |-> at.x, y |-> at.y,
                   textX |-> at.textX, textY |-> at.textY, position |-> at.position,
                   width |-> 0]

\* nodes.length > 0 && nodes.map((_, index) => calculateAddButtonPosition(index, nodes.length))
drawAddButton(indexBefore, total) ==
  /\ LayoutFrame
  /\ diagram = "cycle"
  /\ total >= 1
  /\ indexBefore \in 0..(total - 1)
  /\ LET at == calculateAddButtonPosition(indexBefore, total, defaultRadius)
     IN  drawn' = [what |-> "AddButtonWrapper", index |-> indexBefore, total |-> total,
                   angle |-> IF total <= 1 THEN 0 ELSE midAngle(indexBefore, total),
                   x |-> at.x, y |-> at.y, textX |-> 0, textY |-> 0, position |-> "",
                   width |-> 0]

\* <SmartArtContainer $nodeCount={nodes.length}>
drawContainer(nodeCount) ==
  /\ LayoutFrame
  /\ diagram = "list"
  /\ drawn' = [what |-> "SmartArtContainer", index |-> 0, total |-> nodeCount,
                angle |-> 0, x |-> 0, y |-> 0, textX |-> 0, textY |-> 0, position |-> "",
                width |-> containerWidth(nodeCount)]

\* ---------------------------------------------------------- specification
InitList ==
  /\ diagram = "list"
  /\ nodes = InitialNodes
  /\ hoveredNode = NULL
  /\ pressedNode = NULL
  /\ editingTitle = NULL
  /\ editingBody = NULL
  /\ containerActive = FALSE
  /\ containerHovered = FALSE
  /\ insertPictureMenuOpen = NULL
  /\ generatingImageForNode = NULL
  /\ timers = << >>
  /\ pending = << >>
  /\ filePickerFor = NULL

InitCycle ==
  /\ propNodes \in CycleInputs
  /\ internalNodes = propNodes
  /\ onNodesChange \in BOOLEAN
  /\ notified = << >>

\* the component that is not mounted has no state of its own
ListInit ==
  /\ InitList
  /\ propNodes = << >> /\ internalNodes = << >> /\ onNodesChange = FALSE /\ notified = << >>
  /\ lastEvent = NoEvent
  /\ heldIds = Ids(nodes)
  /\ drawn = NotDrawn

CycleInit ==
  /\ InitCycle
  /\ diagram = "cycle"
  /\ nodes = << >>
  /\ hoveredNode = NULL /\ pressedNode = NULL /\ editingTitle = NULL /\ editingBody = NULL
  /\ containerActive = FALSE /\ containerHovered = FALSE
  /\ insertPictureMenuOpen = NULL /\ generatingImageForNode = NULL
  /\ timers = << >> /\ pending = << >> /\ filePickerFor = NULL
  /\ lastEvent = NoEvent
  /\ heldIds = Ids(nodes)
  /\ drawn = NotDrawn

Init == ListInit \/ CycleInit

\* Every gesture is optional for the environment, so each specification below lets
\* it use one group of gestures together with everything those gestures need.

\* the interaction state machine: every pointer gesture, insert / move / delete, and
\* the image-source menu opened, dismissed and used for 'Stock Images'
Next == PointerEvents \/ StructureEvents \/ MenuEvents({"Stock Images"})

Spec == ListInit /\ [][Next]_vars

\* image acquisition: the menu used for 'Generate with AI', the provider's answers,
\* and the gestures that reach the menu, insert and delete
AcquireNext ==
  \/ \E entered \in BOOLEAN : containerMouse(entered)
  \/ \E nodeId \in 1..MaxId : handleNodeClick(nodeId)
  \/ \E nodeId \in 1..MaxId : imageMouseEnter(nodeId)
  \/ StructureEvents
  \/ MenuEvents({"Generate with AI"})
  \/ AcquisitionEvents

SpecAcquire == ListInit /\ [][AcquireNext]_vars

\* content: gestures that write the node sequence of either diagram (insert, move,
\* delete, typing a title, a picked file), and the gestures that reach them
ContentNext ==
  \/ \E entered \in BOOLEAN : containerMouse(entered)
  \/ \E nodeId \in 1..MaxId : handleNodeClick(nodeId)
  \/ \E nodeId \in 1..MaxId : handleTitleClick(nodeId)
  \/ \E nodeId \in 1..MaxId : imageMouseEnter(nodeId)
  \/ StructureEvents
  \/ \E nodeId \in 1..MaxId, newTitle \in TypedText : handleTitleChange(nodeId, newTitle)
  \/ MenuEvents({"This Device"})
  \/ FileEvents
  \/ CycleEvents

SpecContent == Init /\ [][ContentNext]_vars

\* the list diagram mounted with the three sample cards
SampleInit ==
  /\ diagram = "list"
  /\ nodes = SampleNodes
  /\ hoveredNode = NULL /\ pressedNode = NULL /\ editingTitle = NULL /\ editingBody = NULL
  /\ containerActive = FALSE /\ containerHovered = FALSE
  /\ insertPictureMenuOpen = NULL /\ generatingImageForNode = NULL
  /\ timers = << >> /\ pending = << >> /\ filePickerFor = NULL
  /\ propNodes = << >> /\ internalNodes = << >> /\ onNodesChange = FALSE /\ notified = << >>
  /\ lastEvent = NoEvent
  /\ heldIds = Ids(nodes)
  /\ drawn = NotDrawn

\* reordering: the sample cards selected, moved left and right, and deleted
MoveNext ==
  \/ \E nodeId \in 1..(MaxId + 1) : handleNodeClick(nodeId)
  \/ \E nodeId \in 1..(MaxId + 1) : handleTitleClick(nodeId)
  \/ \E nodeId \in 1..(MaxId + 1) : handleMoveLeft(nodeId)
  \/ \E nodeId \in 1..(MaxId + 1) : handleMoveRight(nodeId)
  \/ \E nodeId \in 1..(MaxId + 1) : handleDeleteNode(nodeId)

SpecMove == SampleInit /\ [][MoveNext]_vars

\* the handlers that take a node id, invoked with any id (one more id than the
\* diagram ever holds, and the ids of deleted nodes), next to the gestures that
\* select, delete and edit
CallNext ==
  \/ \E nodeId \in 1..MaxId : handleNodeClick(nodeId)
  \/ \E nodeId \in 1..MaxId : handleDeleteNode(nodeId)
  \/ \E nodeId \in 1..(MaxId + 1) : callDeleteNode(nodeId)
  \/ \E nodeId \in 1..(MaxId + 1), newTitle \in TypedText : callTitleChange(nodeId, newTitle)
  \/ \E nodeId \in 1..(MaxId + 1), newBody \in TypedText : callBodyChange(nodeId, newBody)
  \/ \E nodeId \in 1..(MaxId + 1), type \in FileTypes : callFileSelection(nodeId, type)

SpecCalls == ListInit /\ [][CallNext]_vars

\* settlement: 'Generate with AI' on the initial cards, answered in any order with
\* any outcome, while cards are selected and deleted
SettleNext ==
  \/ \E nodeId \in 1..MaxId : imageMouseEnter(nodeId)
  \/ \E nodeId \in 1..MaxId : handleNodeClick(nodeId)
  \/ \E nodeId \in 1..MaxId : handleDeleteNode(nodeId)
  \/ MenuEvents({"Generate with AI"})
  \/ AcquisitionEvents

SpecSettle == ListInit /\ [][SettleNext]_vars

\* the same, where the event loop runs every callback that waits in it and the image
\* provider answers every request
SpecSettleFair ==
  /\ SpecSettle
  /\ WF_vars(insertPictureTimeout)
  /\ WF_vars(pictureSourceTimeout)
  /\ WF_vars(AcquisitionEvents)

\* picking a file: the menu used for 'This Device' on the initial cards and the
\* picker's answers, while cards are selected and deleted
FileNext ==
  \/ \E nodeId \in 1..MaxId : imageMouseEnter(nodeId)
  \/ \E nodeId \in 1..MaxId : handleNodeClick(nodeId)
  \/ \E nodeId \in 1..MaxId : handleDeleteNode(nodeId)
  \/ MenuEvents({"This Device"})
  \/ \E type \in FileTypes : fileChosen(type)
  \/ filePickerCancel

SpecFile == ListInit /\ [][FileNext]_vars

\* layout: the render of a cycle of any size up to MaxTotal, element by element, and
\* of the container of a list of any size up to MaxTotal
LayoutInit ==
  /\ Init
  /\ diagram = "cycle" => (propNodes = << >> /\ onNodesChange = FALSE)

LayoutNext ==
  \/ \E total \in 1..MaxTotal, index \in 0..(MaxTotal - 1) : drawNode(index, total)
  \/ \E total \in 1..MaxTotal, indexBefore \in 0..(MaxTotal - 1) : drawAddButton(indexBefore, total)
  \/ \E nodeCount \in 0..MaxTotal : drawContainer(nodeCount)

SpecLayout == LayoutInit /\ [][LayoutNext]_vars

\* inserting between cards: the pointer over the container, the "+" buttons at the
\* edges and between the cards, and the gestures that select, deselect and delete
BetweenNext ==
  \/ \E entered \in BOOLEAN : containerMouse(entered)
  \/ \E target \in {"outside", "container"} : handleClickOutside(target)
  \/ \E nodeId \in 1..(MaxId + 1) : handleNodeClick(nodeId)
  \/ \E nodeId \in 1..(MaxId + 1) : handleDeleteNode(nodeId)
  \/ \E position \in 0..MaxNodes : handleAddClick(position)
  \/ \E idx \in 0..(MaxNodes - 1) : betweenAddClick(idx)

SpecBetween == ListInit /\ [][BetweenNext]_vars

\* ------------------------------------------------------------------ claims
NoDupIds(s) == \A i, j \in DOMAIN s : s[i].id = s[j].id => i = j

\* the per-node generating mark as the render reads it (generatingImageForNode === node.id)
isGenerating(nodeId) == generatingImageForNode = nodeId

\* C1: when an acquisition whose target node was deleted while it was pending is
\* settled (result, empty result or failure), the node sequence after the settlement
\* is exactly the node sequence before it, whatever happened in between.
C1_OrphanedResultDiscarded ==
  [][ \A i \in 1..MaxPending, outcome \in Outcomes :
        (i \in DOMAIN pending /\ pending[i].orphaned /\ settleAcquisition(i, outcome))
          => nodes' = nodes ]_vars

\* C2: every node with an acquisition in flight is marked generating, in every
\* reachable state, whatever other acquisitions have started or settled.
C2_GeneratingPerNode ==
  \A i \in DOMAIN pending : isGenerating(pending[i].target)

\* C3: the ids of the node sequence are pairwise distinct in every reachable state of
\* a list diagram (insert, delete, move, title update, image set) and of a cycle
\* diagram (insert).
C3_IdsDistinct == NoDupIds(nodes) /\ NoDupIds(cycleNodes)

\* a list in which a node was deleted and a new one inserted in front of a node whose
\* title was typed and whose image was picked from the device
C3_Witness ==
  /\ diagram = "list"
  /\ Len(nodes) = 2
  /\ nodes[1].image = DefaultImage
  /\ nodes[2].title \in TypedText
  /\ nodes[2].image = BlobImage

\* C4: a list diagram that starts with at least one node always has at least one.
C4_NeverEmpty == diagram = "list" => Len(nodes) >= 1

\* the last remaining node is selected, so its Delete button is there to be clicked
C4_Witness == Len(nodes) = 1 /\ pressedNode \in Ids(nodes)

\* C5: while the image-source menu is open for node n, pressedNode, editingTitle and
\* editingBody are null, containerActive is false and no node other than n is hovered;
\* and no step that leaves the menu open changes any of these values.
C5_MenuModal ==
  /\ [](insertPictureMenuOpen # NULL =>
          /\ pressedNode = NULL
          /\ editingTitle = NULL
          /\ editingBody = NULL
          /\ containerActive = FALSE
          /\ hoveredNode \in {NULL, insertPictureMenuOpen})
  /\ [][ (insertPictureMenuOpen # NULL /\ insertPictureMenuOpen' # NULL)
          => UNCHANGED << hoveredNode, pressedNode, editingTitle, editingBody, containerActive >> ]_vars

\* the menu is open after the user had inserted a node (which selects it and puts its
\* title in edit mode) and the pointer is over the container
C5_Witness ==
  /\ insertPictureMenuOpen # NULL
  /\ insertPictureMenuOpen \in Ids(nodes)
  /\ containerHovered
  /\ \E i \in DOMAIN nodes : nodes[i].image = DefaultImage

\* C6: at most one of editingTitle and editingBody is non-null in every reachable
\* state; a step that enters title-edit leaves editingBody null and containerActive
\* false, and a step that enters body-edit leaves editingTitle null and
\* containerActive false.
C6_EditExclusive ==
  /\ [](editingTitle = NULL \/ editingBody = NULL)
  /\ [][ (editingTitle' # NULL /\ editingTitle' # editingTitle)
          => (editingBody' = NULL /\ containerActive' = FALSE) ]_vars
  /\ [][ (editingBody' # NULL /\ editingBody' # editingBody)
          => (editingTitle' = NULL /\ containerActive' = FALSE) ]_vars

\* body-edit on an inserted node, which was in title-edit right after the insert
C6_Witness ==
  /\ editingBody # NULL
  /\ \E i \in DOMAIN nodes : nodes[i].id = editingBody /\ nodes[i].image = DefaultImage

\* C7: containerActive implies that pressedNode, editingTitle and editingBody are all
\* null; a step that presses a node leaves containerActive false, and a step that
\* activates the container leaves the three null.
C7_ContainerExcludesSelection ==
  /\ [](containerActive => (pressedNode = NULL /\ editingTitle = NULL /\ editingBody = NULL))
  /\ [][ (pressedNode' # NULL /\ pressedNode' # pressedNode) => containerActive' = FALSE ]_vars
  /\ [][ (containerActive' /\ ~containerActive)
          => (pressedNode' = NULL /\ editingTitle' = NULL /\ editingBody' = NULL) ]_vars

\* the container is active in a diagram where a node was inserted before
C7_Witness ==
  /\ containerActive
  /\ \E i \in DOMAIN nodes : nodes[i].image = DefaultImage

\* C8: a pointer-down outside the list diagram while no menu is open leaves
\* hoveredNode, pressedNode, editingTitle and editingBody null and containerActive
\* false, from any reachable state.
C8_OutsideReset ==
  [][ (insertPictureMenuOpen = NULL /\ handleClickOutside("outside"))
        => /\ hoveredNode' = NULL
           /\ pressedNode' = NULL
           /\ editingTitle' = NULL
           /\ editingBody' = NULL
           /\ containerActive' = FALSE ]_vars

\* the reset has just run in a diagram whose nodes were changed before
C8_Witness ==
  /\ lastEvent.op = "handleClickOutside"
  /\ lastEvent.branch = "reset"
  /\ nodes # InitialNodes
  /\ containerHovered

\* C9: a pointer-down outside the diagram while a menu is open closes the menu and
\* leaves hoveredNode, pressedNode, editingTitle, editingBody, containerActive and the
\* node sequence as they were.
C9_OutsideClosesMenuOnly ==
  [][ (insertPictureMenuOpen # NULL /\ handleClickOutside("outside"))
        => /\ insertPictureMenuOpen' = NULL
           /\ UNCHANGED << hoveredNode, pressedNode, editingTitle, editingBody,
                            containerActive, nodes >> ]_vars

\* the menu has just been closed by the pointer-down; the hover it had set is kept
C9_Witness ==
  /\ lastEvent.op = "handleClickOutside"
  /\ lastEvent.branch = "closeMenu"
  /\ insertPictureMenuOpen = NULL
  /\ hoveredNode # NULL

IndexOf(s, nodeId) == CHOOSE i \in DOMAIN s : s[i].id = nodeId

C12_MoveSwapsNeighbours ==
  [][ \A nodeId \in 1..(MaxId + 1) :
        /\ handleMoveLeft(nodeId) =>
              LET i == IndexOf(nodes, nodeId)
              IN  IF i = 1 THEN UNCHANGED listVars
                  ELSE nodes' = [nodes EXCEPT ![i - 1] = nodes[i], ![i] = nodes[i - 1]]
        /\ handleMoveRight(nodeId) =>
              LET i == IndexOf(nodes, nodeId)
              IN  /\ IF i = Len(nodes) THEN UNCHANGED listVars
                     ELSE nodes' = [nodes EXCEPT ![i + 1] = nodes[i], ![i] = nodes[i + 1]]
                  /\ (nodes = SampleNodes /\ nodeId = 2) =>
                        [k \in DOMAIN nodes' |-> nodes'[k].id] = << 1, 3, 2 >> ]_vars

\* the example: the three sample cards after Move Right on card 2
C12_Witness ==
  /\ nodes = << SampleNodes[1], SampleNodes[3], SampleNodes[2] >>
  /\ pressedNode = 2

\* a reference into the node sequence: null, or the id of a node in it
RefOk(ref) == ref = NULL \/ ref \in Ids(nodes)

\* C13: in every reachable state of the list diagram each of hoveredNode,
\* pressedNode, editingTitle, editingBody and the open-menu node is null or the id of
\* a node in the sequence; after a delete of n none of them is n.
C13_NoDanglingReference ==
  diagram = "list" =>
    /\ RefOk(hoveredNode)
    /\ RefOk(pressedNode)
    /\ RefOk(editingTitle)
    /\ RefOk(editingBody)
    /\ RefOk(insertPictureMenuOpen)

\* C14: the id an insert assigns was never held by a node of the diagram before,
\* deleted nodes included.
C14_InsertedIdIsFresh ==
  [][ \A position \in 0..MaxNodes :
        handleAddClick(position) => nodes'[position + 1].id \notin heldIds ]_vars

\* C15: when the acquisition made for node n fails, then after it has resolved the
\* image of n is the fallback reference, n is not marked generating, the id, title,
\* body and position of n are as before and every other node is unchanged.
C15_FailureFallsBack ==
  [][ \A i \in 1..MaxPending :
        ( /\ i \in DOMAIN pending
          /\ ~pending[i].orphaned
          /\ settleAcquisition(i, [kind |-> "error", url |-> ""]) )
        => LET n == pending[i].target
               k == IndexOf(nodes, n)
           IN  /\ n \in Ids(nodes)
               /\ nodes' = [nodes EXCEPT ![k] =
                              [id |-> nodes[k].id, title |-> nodes[k].title,
                               body |-> nodes[k].body, image |-> ErrorFallbackImage]]
               /\ generatingImageForNode' # n ]_vars

\* the acquisition of a node has just failed while another node's is still in flight
C15_Witness ==
  /\ lastEvent.op = "settleAcquisition"
  /\ lastEvent.branch = "error"
  /\ \E k \in DOMAIN nodes : nodes[k].id = lastEvent.node /\ nodes[k].image = ErrorFallbackImage
  /\ \E j \in DOMAIN pending : pending[j].target # lastEvent.node

\* C16: an empty result set and a request failure are handled alike: in both cases
\* the image of the node becomes the one fallback reference and the user is told.
C16_EmptyHandledAsFailure ==
  [][ \A i \in 1..MaxPending :
        \A outcome \in { [kind |-> "empty", url |-> ""], [kind |-> "error", url |-> ""] } :
          ( /\ i \in DOMAIN pending
            /\ pending[i].target \in Ids(nodes)
            /\ settleAcquisition(i, outcome) )
          => /\ nodes'[IndexOf(nodes, pending[i].target)].image = ErrorFallbackImage
             /\ noticeRaised(outcome) ]_vars

\* a node has an acquisition in flight that was made for it
InFlight(nodeId) ==
  \E j \in DOMAIN pending : pending[j].target = nodeId /\ ~pending[j].orphaned

\* C17: a render failure of a node's image substitutes the fallback if and only if
\* the node has no acquisition in flight, whatever acquisitions of other nodes have
\* started or finished.
C17_SubstituteUnlessInFlight ==
  \A nodeId \in Ids(nodes) : onErrorSubstitutes(nodeId) <=> ~InFlight(nodeId)

\* the image a settlement with the given outcome stands for
OutcomeImage(outcome) ==
  CASE outcome.kind = "result" -> outcome.url
    [] outcome.kind = "empty"  -> EmptyResultImage
    [] outcome.kind = "error"  -> ErrorFallbackImage

\* C18: acquisitions of different nodes have independent outcomes: each resolution,
\* in whatever order and with whatever outcome, writes the image its own outcome
\* stands for to its own node and leaves every other node as it was, so that once
\* both have resolved each node carries the image of its own acquisition.
C18_IndependentOutcomes ==
  [][ \A i \in 1..MaxPending, outcome \in Outcomes :
        ( /\ i \in DOMAIN pending
          /\ ~pending[i].orphaned
          /\ settleAcquisition(i, outcome) )
        => LET k == IndexOf(nodes, pending[i].target)
           IN  /\ pending[i].target \in Ids(nodes)
               /\ nodes'[k].image = OutcomeImage(outcome)
               /\ Len(nodes') = Len(nodes)
               /\ \A m \in DOMAIN nodes : m # k => nodes'[m] = nodes[m] ]_vars

\* a card's acquisition has just returned a result and the card carries it, while
\* the acquisition of the other card is still in flight and that card is untouched
C18_Witness ==
  /\ lastEvent.op = "settleAcquisition"
  /\ lastEvent.branch = "result"
  /\ Len(nodes) = 2
  /\ \E k \in DOMAIN nodes :
        /\ nodes[k].id = lastEvent.node
        /\ nodes[k].image \in GeneratedImages
  /\ \E j \in DOMAIN pending, m \in DOMAIN nodes :
        /\ pending[j].target # lastEvent.node
        /\ nodes[m].id = pending[j].target
        /\ nodes[m] = InitialNodes[m]

\* t is s with the named field of the node with the given id set to v, and nothing
\* else different; t is s when no node has the id
UpdatedInPlace(s, t, nodeId, field, v) ==
  /\ Len(t) = Len(s)
  /\ \A i \in DOMAIN s :
        /\ t[i].id = s[i].id
        /\ s[i].id = nodeId => t[i] = [s[i] EXCEPT ![field] = v]
        /\ s[i].id # nodeId => t[i] = s[i]

\* C19: an update of a node's title, body or image keeps the length of the sequence
\* and its ids in their order, changes only the named field of the node with the given
\* id and leaves every other node as it was; for an id no node has, nothing changes.
C19_UpdateInPlace ==
  [][ \A nodeId \in 1..(MaxId + 1) :
        /\ \A v \in TypedText :
              /\ callTitleChange(nodeId, v) => UpdatedInPlace(nodes, nodes', nodeId, "title", v)
              /\ callBodyChange(nodeId, v) => UpdatedInPlace(nodes, nodes', nodeId, "body", v)
        /\ callFileSelection(nodeId, << "image", "png" >>)
              => UpdatedInPlace(nodes, nodes', nodeId, "image", BlobImage)
        /\ ( /\ nodeId \notin Ids(nodes)
             /\ \/ \E v \in TypedText : callTitleChange(nodeId, v) \/ callBodyChange(nodeId, v)
                \/ \E type \in FileTypes : callFileSelection(nodeId, type) )
           => UNCHANGED listVars ]_vars

\* the title of a node, the body of the other and an image have been set, and the
\* last update named an id that no node has
C19_Witness ==
  /\ lastEvent.branch = "absent"
  /\ lastEvent.op \in {"handleTitleChange", "handleBodyChange", "handleFileSelection"}
  /\ Len(nodes) = 2
  /\ nodes[1].title \in TypedText /\ nodes[1].body = InitialNodes[1].body
  /\ nodes[2].body \in TypedText /\ nodes[2].title = InitialNodes[2].title
  /\ nodes[2].image = BlobImage /\ nodes[1].image = InitialNodes[1].image

\* C20: in the cycle diagram an insert after the node at a given index, with the
\* callback supplied, calls it exactly once with the old sequence in which the new
\* node stands directly after that node, and leaves the internal copy as it was;
\* with no callback the internal copy becomes that sequence and nothing is called.
C20_CycleInsertNotifies ==
  [][ \A index \in 0..MaxNodes :
        handleAddNode(index) =>
          LET old == cycleNodes
              updated == [k \in 1..(Len(old) + 1) |->
                            IF k <= index + 1 THEN old[k]
                            ELSE IF k = index + 2
                                 THEN [id |-> MaxOf(Ids(old)) + 1, title |-> "New Step",
                                       description |-> "Add details here"]
                                 ELSE old[k - 1]]
          IN  IF onNodesChange
              THEN notified' = << updated >> /\ internalNodes' = internalNodes
              ELSE internalNodes' = updated /\ notified' = << >> ]_vars

\* the callback has just been called with a sequence in which the new node stands
\* between two older ones, one of them inserted and handed back by the parent before
C20_Witness ==
  /\ diagram = "cycle"
  /\ onNodesChange
  /\ Len(notified) = 1
  /\ Len(notified[1]) = 3
  /\ notified[1][2].title = "New Step"
  /\ \E k \in {1, 3} : notified[1][k].title = "New Step"
  /\ Len(propNodes) = 2
  /\ internalNodes # propNodes

\* C21: when the file picked from the device is not an image, the node sequence (the
\* image of the target node included) and every interaction state are after the
\* event what they were before it.
C21_NonImageAborts ==
  [][ \A type \in FileTypes :
        (type[1] # "image" /\ fileChosen(type))
          => UNCHANGED << nodes, hoveredNode, pressedNode, editingTitle, editingBody,
                          containerActive, containerHovered, insertPictureMenuOpen,
                          generatingImageForNode, timers, pending >> ]_vars

\* a file that is not an image has just been rejected for a card that carries an
\* image picked before, while a card is selected
C21_Witness ==
  /\ lastEvent.op = "handleFileSelection"
  /\ lastEvent.branch = "rejected"
  /\ pressedNode # NULL
  /\ \E k \in DOMAIN nodes : nodes[k].id = lastEvent.node /\ nodes[k].image = BlobImage

\* the angle between two directions, along the shorter arc
AngularDistance(a, b) ==
  IF (a - b) % Turn <= (b - a) % Turn THEN (a - b) % Turn ELSE (b - a) % Turn

\* C22: for total >= 2 and every indexBefore, the angle of the insertion midpoint is,
\* modulo 360 degrees, halfway between the angle of node indexBefore and the angle of
\* the node after it (node 0 after the last one): half a step clockwise from the
\* first, half a step before the second, which for indexBefore = total-1 puts it on
\* the shorter arc between node total-1 and node 0.
C22_MidpointHalfway ==
  (drawn.what = "AddButtonWrapper" /\ drawn.total >= 2) =>
    LET before == angleInDegrees(drawn.index, drawn.total)
        after == angleInDegrees((drawn.index + 1) % drawn.total, drawn.total)
    IN  /\ (before - drawn.angle) % Turn = Step(drawn.total) \div 2
        /\ (drawn.angle - after) % Turn = Step(drawn.total) \div 2
        /\ (2 * drawn.angle - (before + after)) % Turn = 0
        /\ AngularDistance(drawn.angle, before) + AngularDistance(drawn.angle, after)
             = AngularDistance(before, after)

\* the button between the last and the first node of a cycle of five has been placed
C22_Witness ==
  /\ drawn.what = "AddButtonWrapper"
  /\ drawn.total = 5
  /\ drawn.index = 4
  /\ drawn.angle = Degrees(126)

\* C23: for total <= 1 the insertion-midpoint function returns the center point of
\* the circle.
C23_DegenerateIsCenter ==
  (drawn.what = "AddButtonWrapper" /\ drawn.total <= 1) =>
    (drawn.x = centerX * FP /\ drawn.y = centerY * FP)

\* the eight anchors, in the order of their octants from 337.5 degrees on
Anchors ==
  << "right", "bottom-right", "bottom", "bottom-left", "left", "top-left", "top", "top-right" >>

\* C24: the eight label-anchor octants partition [0,360): the angle of every node,
\* brought into [0,360), lies in exactly one of the eight half-open octants
\* [22.5 + (k-1)*45, 22.5 + k*45), and the anchor of the node is the anchor of that
\* octant, so that the anchor changes at the angles 22.5 + k*45 and nowhere else.
C24_OctantsPartition ==
  drawn.what = "NodeMarker" =>
    LET n == drawn.angle % Turn
        inOctant(k) ==
          \/ HalfDegrees(90 * k - 45) <= n /\ n < HalfDegrees(90 * k + 45)
          \/ HalfDegrees(90 * k - 45) <= n - Turn /\ n - Turn < HalfDegrees(90 * k + 45)
    IN  /\ Cardinality({ k \in 0..7 : inOctant(k) }) = 1
        /\ \A k \in 0..7 : inOctant(k) => drawn.position = Anchors[k + 1]

\* a node of a cycle of sixteen stands at -22.5 degrees, the limit 337.5 between two
\* octants, and takes the anchor of the octant that starts there
C24_Witness ==
  /\ drawn.what = "NodeMarker"
  /\ drawn.total = 16
  /\ drawn.angle = 0 - HalfDegrees(45)
  /\ drawn.position = "right"

DistanceSquared(x1, y1, x2, y2) ==
  ((x1 - x2) \div (FP \div 100)) * ((x1 - x2) \div (FP \div 100))
    + ((y1 - y2) \div (FP \div 100)) * ((y1 - y2) \div (FP \div 100))

\* C26: for every total >= 1 and every index below it, the point the cycle layout
\* returns for the node lies at the distance radius from the center, within the
\* tolerance of the arithmetic (here a thousandth of the squared radius).
C26_NodeOnCircle ==
  drawn.what = "NodeMarker" =>
    LET r2 == (defaultRadius * 100) * (defaultRadius * 100)
    IN  Abs(DistanceSquared(drawn.x, drawn.y, centerX * FP, centerY * FP) - r2) <= r2 \div 1000

\* a node of a cycle of seven stands off both axes of the circle, to the lower left
C26_Witness ==
  /\ drawn.what = "NodeMarker"
  /\ drawn.total = 7
  /\ drawn.index = 4
  /\ drawn.x < centerX * FP
  /\ drawn.y > centerY * FP

\* C27 as stated: the between-column button at internal boundary i is at the left
\* offset P + (i+1)*W + i*G + G/2 with W = 200, G = 24, P = 20, and a click on it
\* inserts at sequence index i+1.
C27_BetweenButtonAtBoundary ==
  /\ [](\A b \in betweenButtons :
          /\ b.idx \in 0..(Len(nodes) - 2)
          /\ b.left = 20 + (b.idx + 1) * 200 + b.idx * 24 + 12)
  /\ [][ \A i \in 0..(MaxNodes - 1) :
            betweenAddClick(i) =>
              /\ Len(nodes') = Len(nodes) + 1
              /\ nodes'[i + 2].id \notin Ids(nodes) ]_vars

\* C27, amended: the between-column button at internal boundary i
\* (0 <= i <= nodeCount-2) is at the left offset P + (i+1)*W + i*G + G/2 + 6 with
\* W = 200, G = 24, P = 20, and a click on it inserts the new node at sequence index
\* i+1, the nodes before and after it keeping their order.
C27_BetweenButtonTuned ==
  /\ [](\A b \in betweenButtons :
          /\ b.idx \in 0..(Len(nodes) - 2)
          /\ b.left = 20 + (b.idx + 1) * 200 + b.idx * 24 + 12 + 6)
  /\ [](addButtonsRendered =>
          \A i \in 0..(Len(nodes) - 2) : \E b \in betweenButtons : b.idx = i)
  /\ [][ \A i \in 0..(MaxNodes - 1) :
            betweenAddClick(i) =>
              /\ Len(nodes') = Len(nodes) + 1
              /\ nodes'[i + 2].id \notin Ids(nodes)
              /\ \A k \in DOMAIN nodes : nodes'[IF k <= i + 1 THEN k ELSE k + 1] = nodes[k] ]_vars

\* a node has just been inserted with the button between the two cards, and the
\* pointer is still over the container
C27_Witness ==
  /\ lastEvent.op = "handleAddClick"
  /\ lastEvent.branch = "between"
  /\ Len(nodes) = 3
  /\ nodes[1] = InitialNodes[1]
  /\ nodes[2] = newNode(lastEvent.node)
  /\ nodes[3] = InitialNodes[2]
  /\ containerHovered

\* C28: editing implies selection: in every reachable state of the list diagram, a
\* node whose title or body is in edit mode is the pressed node.
C28_EditingImpliesPressed ==
  diagram = "list" =>
    /\ editingTitle # NULL => pressedNode = editingTitle
    /\ editingBody # NULL => pressedNode = editingBody

\* C29: provided every acquisition that was started resolves, the generating state
\* is cleared in the end, and it goes with the acquisitions in flight: when none is
\* in flight no node is marked generating, and when no node is marked generating none
\* is in flight.
C29_GeneratingIffInFlight ==
  /\ [](pending = << >> => generatingImageForNode = NULL)
  /\ [](generatingImageForNode = NULL => pending = << >>)
  /\ (generatingImageForNode # NULL) ~> (generatingImageForNode = NULL)

\* C30: the events that only touch the interaction state never change the content:
\* hover enter and leave (image and container), a press on a node, a click on a title
\* or a body, the activation of the container, opening and closing the menu (choosing
\* 'Stock Images' included) and a pointer-down outside leave the node sequence (ids,
\* order, titles, bodies, images) as it was.
C30_InteractionKeepsContent ==
  [][ (PointerEvents \/ MenuEvents({"Stock Images"})) => nodes' = nodes ]_vars

\* the body of one card is in edit mode and the pointer is over the image of the
\* other, inside the hovered container, and the cards are the initial ones
C30_Witness ==
  /\ nodes = InitialNodes
  /\ editingBody # NULL
  /\ hoveredNode # NULL
  /\ hoveredNode # editingBody
  /\ containerHovered
  /\ pressedNode = editingBody

====
